---- MODULE Spec2Model ----
(***************************************************************************)
(* Model of the aftertone inventory API: the inventory handler (GET and    *)
(* POST upsert-merge over one JSON document), the upload handler and the   *)
(* shared bearer-token verifier.                                           *)
(*                                                                         *)
(* JavaScript values are records [t, s, n]: t is the type tag, s the       *)
(* characters of a string (a sequence of one-character strings), n the     *)
(* value of a number.  An object is a function from field names to values, *)
(* an absent property being the value Undef.                               *)
(***************************************************************************)
EXTENDS Integers, Sequences, FiniteSets, TLC

(* ------------------------------ bounds -------------------------------- *)

\* longest incoming batch (array / items) a request carries
MaxBatch == 2
\* longest string given to normalizeId alone, and how often it is applied
MaxLen == 3
MaxApplications == 2

(* ---------------------------- JS values ------------------------------- *)

Undef == [t |-> "undef", s |-> <<>>, n |-> 0]
Null == [t |-> "null", s |-> <<>>, n |-> 0]
Str(chars) == [t |-> "str", s |-> chars, n |-> 0]
Num(k) == [t |-> "num", s |-> <<>>, n |-> k]

\* ToBoolean: undefined, null, "" and 0 are falsy
Truthy(v) == \/ v.t = "str" /\ v.s # <<>>
             \/ v.t = "num" /\ v.n # 0

Present(v) == v.t # "undef"

LowerLetters == <<"a","b","c","d","e","f","g","h","i","j","k","l","m",
                  "n","o","p","q","r","s","t","u","v","w","x","y","z">>
UpperLetters == <<"A","B","C","D","E","F","G","H","I","J","K","L","M",
                  "N","O","P","Q","R","S","T","U","V","W","X","Y","Z">>
DigitChars == <<"0","1","2","3","4","5","6","7","8","9">>

Range(f) == {f[i] : i \in DOMAIN f}

LowerAlnumChars == Range(LowerLetters) \cup Range(DigitChars)
UpperChars == Range(UpperLetters)

\* the character class [a-z0-9]
IsLowerAlnum(c) == c \in LowerAlnumChars

IsSpace(c) == c = " "

\* String.prototype.toLowerCase on one character
LowerOfUpper ==
  [c \in UpperChars |->
     LowerLetters[CHOOSE i \in DOMAIN UpperLetters : UpperLetters[i] = c]]

LowerChar(c) == IF c \in UpperChars THEN LowerOfUpper[c] ELSE c

toLowerCase(str) == [i \in DOMAIN str |-> LowerChar(str[i])]

RECURSIVE DropLeading(_, _)
\* str without its longest prefix of characters satisfying Cls
DropLeading(Cls(_), str) ==
  IF str # <<>> /\ Cls(Head(str)) THEN DropLeading(Cls, Tail(str)) ELSE str

RECURSIVE DropTrailing(_, _)
DropTrailing(Cls(_), str) ==
  IF str # <<>> /\ Cls(str[Len(str)])
  THEN DropTrailing(Cls, SubSeq(str, 1, Len(str) - 1))
  ELSE str

\* String.prototype.trim
trim(str) == DropTrailing(IsSpace, DropLeading(IsSpace, str))

IsNotLowerAlnum(c) == ~IsLowerAlnum(c)
IsHyphen(c) == c = "-"

RECURSIVE ReplaceRuns(_)
\* .replace(/[^a-z0-9]+/g, '-'): every maximal run becomes one hyphen
ReplaceRuns(str) ==
  IF str = <<>> THEN <<>>
  ELSE IF IsLowerAlnum(Head(str))
       THEN <<Head(str)>> \o ReplaceRuns(Tail(str))
       ELSE <<"-">> \o ReplaceRuns(DropLeading(IsNotLowerAlnum, Tail(str)))

\* .replace(/^-+|-+$/g, '')
StripHyphens(str) == DropTrailing(IsHyphen, DropLeading(IsHyphen, str))

\* normalizeId with its two replacements in the other order (variant)
normalizeIdStripFirst(str) ==
  ReplaceRuns(StripHyphens(trim(toLowerCase(str))))

\* normalizeId on the characters of a string
normalizeId(str) == StripHyphens(ReplaceRuns(trim(toLowerCase(str))))

RECURSIVE NatToChars(_)
\* decimal digits of a natural number, as Number.prototype.toString gives
NatToChars(k) ==
  IF k < 10 THEN <<DigitChars[k + 1]>>
  ELSE NatToChars(k \div 10) \o <<DigitChars[(k % 10) + 1]>>

\* string conversion in a template literal `${v}`
ToChars(v) ==
  CASE v.t = "str" -> v.s
    [] v.t = "num" -> NatToChars(v.n)
    [] v.t = "null" -> <<"n","u","l","l">>
    [] OTHER -> <<"u","n","d","e","f","i","n","e","d">>

(* ------------------------------ items --------------------------------- *)

\* the known fields of an item and one field of the open schema
Fields == {"id", "make", "model", "year", "status", "price"}

EmptyObject == [f \in Fields |-> Undef]

Available == <<"A","v","a","i","l","a","b","l","e">>
OnHold == <<"O","n"," ","H","o","l","d">>
Sold == <<"S","o","l","d">>
Draft == <<"D","r","a","f","t">>

StatusEnum == {Available, OnHold, Sold, Draft}

\* validateItem: the list of messages, in the order the checks are made
validateItem(item) ==
  (IF ~Truthy(item.id) \/ item.id.t # "str"
     THEN <<"id is required string">> ELSE <<>>)
  \o (IF ~Truthy(item.make) THEN <<"make is required">> ELSE <<>>)
  \o (IF ~Truthy(item.model) THEN <<"model is required">> ELSE <<>>)
  \o (IF Truthy(item.year) /\ item.year.t # "num"
        THEN <<"year must be number">> ELSE <<>>)
  \o (IF Truthy(item.status)
         /\ ~(item.status.t = "str" /\ item.status.s \in StatusEnum)
        THEN <<"status must be Available | On Hold | Sold | Draft">>
        ELSE <<>>)

\* `${item.make}-${item.model}-${item.year || ''}`
DerivedIdSource(item) ==
  ToChars(item.make) \o <<"-">> \o ToChars(item.model) \o <<"-">>
  \o (IF Truthy(item.year) THEN ToChars(item.year) ELSE <<>>)

\* normalizeId is called on a truthy id that has no toLowerCase: TypeError
IdThrows(item) == Truthy(item.id) /\ item.id.t # "str"

\* an id that is given is kept as it is, only a derived one is normalized
\* (variant)
WithGivenId(item) ==
  [item EXCEPT !["id"] =
     Str(IF Truthy(item.id) THEN item.id.s
         ELSE normalizeId(DerivedIdSource(item)))]

\* { ...item, id: item.id ? normalizeId(item.id) : normalizeId(`...`) }
WithNormalizedId(item) ==
  [item EXCEPT !["id"] =
     Str(IF Truthy(item.id) THEN normalizeId(item.id.s)
         ELSE normalizeId(DerivedIdSource(item)))]

\* { ...old, ...item } keeping the whole incoming record (variant)
SpreadReplace(old, item) == item

\* { ...old, ...item }: the incoming item's own properties win
Spread(old, item) ==
  [f \in Fields |-> IF Present(item[f]) THEN item[f] ELSE old[f]]

(* ------------------------- the Map of the merge ----------------------- *)

\* A Map is the sequence of its [key, val] entries in insertion order.
MapHas(map, key) == \E i \in DOMAIN map : map[i].key = key

MapGet(map, key) ==
  IF MapHas(map, key)
  THEN map[CHOOSE i \in DOMAIN map : map[i].key = key].val
  ELSE EmptyObject

\* Map.prototype.set appending even when the key exists (variant)
MapSetAppend(map, key, val) == Append(map, [key |-> key, val |-> val])

\* Map.prototype.set as delete followed by insert: an existing key moves to
\* the end (variant)
MapSetMoveToEnd(map, key, val) ==
  LET Other(e) == e.key # key
  IN Append(SelectSeq(map, Other), [key |-> key, val |-> val])

\* Map.prototype.set: an existing key keeps its position
MapSet(map, key, val) ==
  IF MapHas(map, key)
  THEN [i \in DOMAIN map |->
          IF map[i].key = key THEN [key |-> key, val |-> val] ELSE map[i]]
  ELSE Append(map, [key |-> key, val |-> val])

RECURSIVE MapOf(_)
\* new Map(existing.map((i) => [i.id, i]))
MapOf(existing) ==
  IF existing = <<>> THEN <<>>
  ELSE LET init == MapOf(SubSeq(existing, 1, Len(existing) - 1))
           i == existing[Len(existing)]
       IN MapSet(init, i["id"], i)

RECURSIVE MergeInto(_, _)
\* incoming.forEach((item) => map.set(item.id, {...map.get(item.id), ...item}))
MergeInto(map, incoming) ==
  IF incoming = <<>> THEN map
  ELSE LET item == Head(incoming)
       IN MergeInto(MapSet(map, item["id"], Spread(MapGet(map, item["id"]), item)),
                    Tail(incoming))

\* [...map.values()]
MapValues(map) == [i \in DOMAIN map |-> map[i].val]

\* a merge that starts from an empty Map (variant)
MergeIncomingOnly(existing, incoming) ==
  MapValues(MergeInto(MapOf(<<>>), incoming))

Merge(existing, incoming) == MapValues(MergeInto(MapOf(existing), incoming))

(* --------------------------- Auth Verifier ---------------------------- *)

\* An authorization header is the text `${scheme} ${token}`; present = FALSE
\* is a request without the header.
NoHeader == [present |-> FALSE, scheme |-> <<>>, token |-> "none"]
Header(scheme, token) == [present |-> TRUE, scheme |-> scheme, token |-> token]

BearerWord == <<"b","e","a","r","e","r">>

\* authHeader.toLowerCase().startsWith('bearer ')
StartsWithBearer(authHeader) == toLowerCase(authHeader.scheme) = BearerWord

\* jwtVerify(token, JWKS, {issuer, audience}): the tokens the key set, issuer
\* and audience accept, with the words of their scope claim split on ' '.
\* Every other token (bad signature, wrong issuer or audience, expired, key
\* set not retrievable) makes jwtVerify throw.
TokenScopes(token) ==
  CASE token = "tRead" -> <<"inventory:read">>
    [] token = "tWrite" -> <<"inventory:write">>
    [] token = "tBoth" -> <<"inventory:read", "inventory:write">>
    [] token = "tNoScope" -> <<"">>
    [] OTHER -> <<>>

jwtVerifyOk(token) == token \in {"tRead", "tWrite", "tBoth", "tNoScope"}

AuthOk == [ok |-> TRUE, status |-> 200, message |-> "ok"]
AuthErr(status, message) == [ok |-> FALSE, status |-> status, message |-> message]

\* the try block of verifyAuth with the scope check left out (variant)
VerifyTokenNoScope(token, scopeNeeded) ==
  IF ~jwtVerifyOk(token) THEN AuthErr(401, "jwtVerify failed") ELSE AuthOk

\* the try block of verifyAuth: what it returns or throws
VerifyToken(token, scopeNeeded) ==
  IF ~jwtVerifyOk(token) THEN AuthErr(401, "jwtVerify failed")
  ELSE IF scopeNeeded # "" /\ scopeNeeded \notin Range(TokenScopes(token))
       THEN AuthErr(403, "Forbidden: missing scope")
       ELSE AuthOk

\* catch (err) of verifyAuth: whatever the try block threw is replaced
CatchVerify(thrown) == AuthErr(401, "Unauthorized")

\* verifyAuth testing the header before the configuration (variant)
verifyAuthHeaderFirst(cfg, authHeader, scopeNeeded) ==
  IF ~authHeader.present \/ ~StartsWithBearer(authHeader)
  THEN AuthErr(401, "Unauthorized")
  ELSE IF ~cfg.domain \/ ~cfg.audience
       THEN AuthErr(500, "Auth not configured")
       ELSE LET r == VerifyToken(authHeader.token, scopeNeeded)
            IN IF r.ok THEN r ELSE CatchVerify(r)

\* verifyAuth(authHeader, scopeNeeded) in an environment cfg
verifyAuth(cfg, authHeader, scopeNeeded) ==
  IF ~cfg.domain \/ ~cfg.audience THEN AuthErr(500, "Auth not configured")
  ELSE IF ~authHeader.present \/ ~StartsWithBearer(authHeader)
       THEN AuthErr(401, "Unauthorized")
       ELSE LET r == VerifyToken(authHeader.token, scopeNeeded)
            IN IF r.ok THEN r ELSE CatchVerify(r)

(* ------------------------- stored documents --------------------------- *)

\* The text stored under a key, by what JSON.parse makes of it:
\*   absent   - store.get returns null
\*   empty    - the empty string
\*   garbage  - text JSON.parse throws on
\*   nonarray - JSON that is not an array (an object, null, a number, ...)
\*   array    - a JSON array of item objects
AbsentDoc == [kind |-> "absent", items |-> <<>>]
EmptyTextDoc == [kind |-> "empty", items |-> <<>>]
GarbageDoc == [kind |-> "garbage", items |-> <<>>]
NonArrayDoc == [kind |-> "nonarray", items |-> <<>>]

\* JSON.stringify(merged, null, 2)
Stringify(list) == [kind |-> "array", items |-> list]

\* !raw
RawFalsy(doc) == doc.kind \in {"absent", "empty"}

\* JSON.parse never throwing (variant)
ParseThrowsNever(doc) == FALSE

\* JSON.parse(raw) throws
ParseThrows(doc) == doc.kind = "garbage"

(* ---------------------------- responses ------------------------------- *)

Detail(idx, msg) == [idx |-> idx, msg |-> msg]

\* resp(statusCode, body): error is body.error, detail body.detail, details
\* body.details and out a body that is an array.  setCalls counts the calls
\* of store.set; readFault and writeFault tell whether store.get and
\* store.set threw in this request.
resp(statusCode, error, out, details) ==
  [status |-> statusCode, threw |-> FALSE, error |-> error, detail |-> "",
   out |-> out, details |-> details, setCalls |-> 0, readFault |-> FALSE,
   writeFault |-> FALSE]

\* the handler's promise rejects: an exception no try block catches
Unhandled(error) ==
  [status |-> 0, threw |-> TRUE, error |-> error, detail |-> "",
   out |-> <<>>, details |-> <<>>, setCalls |-> 0, readFault |-> FALSE,
   writeFault |-> FALSE]

(* ------------------------ Inventory Handler --------------------------- *)

\* list.filter((i) => i.status !== 'Draft') without the filter (variant)
PublicViewAll(list) == list

\* list.filter((i) => i.status !== 'Draft')
PublicView(list) ==
  LET NotDraft(i) == i["status"] # Str(Draft) IN SelectSeq(list, NotDraft)

\* lines 44-51 of handleGet letting the failure of verifyAuth escape
\* (variant)
GetElevationThrows(cfg, event) ==
  LET asked == event.includeDrafts = "1" /\ event.auth.present
      auth == verifyAuth(cfg, event.auth, "inventory:read")
  IN [includeDrafts |-> asked /\ auth.ok, failed |-> asked /\ ~auth.ok,
      status |-> auth.status, message |-> auth.message]

\* lines 43-51 of handleGet: includeDrafts; a failing verifyAuth is caught
\* and ignored, so the step never fails
GetElevation(cfg, event) ==
  LET asked == event.includeDrafts = "1" /\ event.auth.present
      auth == verifyAuth(cfg, event.auth, "inventory:read")
  IN [includeDrafts |-> asked /\ auth.ok, failed |-> FALSE,
      status |-> auth.status, message |-> auth.message]

\* handleGet(event) on the stored document doc; rfault: store.get throws
handleGet(cfg, event, doc, rfault) ==
  LET elevation == GetElevation(cfg, event)
      list == IF doc.kind = "array" THEN doc.items ELSE <<>>
      filtered == IF elevation.includeDrafts THEN list ELSE PublicView(list)
      ReadError(fault) ==
        [resp(500, "Failed to read inventory", <<>>, <<>>)
           EXCEPT !.detail = "err.message", !.readFault = fault]
  IN IF elevation.failed
     THEN resp(elevation.status, elevation.message, <<>>, <<>>)
     ELSE IF rfault THEN ReadError(TRUE)
     ELSE IF RawFalsy(doc) THEN resp(200, "", <<>>, <<>>)
     ELSE IF ParseThrows(doc) THEN ReadError(FALSE)
     ELSE resp(200, "", filtered, <<>>)

\* A request body, by what JSON.parse(event.body || '{}') makes of it:
\*   none      - no body: '{}' is parsed
\*   garbage   - JSON.parse throws
\*   null      - the JSON value null
\*   scalar    - a number, string or boolean
\*   object    - an object with neither an array items nor a truthy item
\*   array     - a bare array of items
\*   items     - { items: [...] }
\*   item      - { item: {...} }
BodyOf(shape, items) == [shape |-> shape, items |-> items]

RECURSIVE ValidationErrors(_)
\* incoming.flatMap((item, idx) => validateItem(item).map((msg) =>
\*   `item ${idx}: ${msg}`)), idx counting from 0
ValidationErrors(incoming) ==
  IF incoming = <<>> THEN <<>>
  ELSE LET n == Len(incoming)
           msgs == validateItem(incoming[n])
       IN ValidationErrors(SubSeq(incoming, 1, n - 1))
          \o [k \in DOMAIN msgs |-> Detail(n - 1, msgs[k])]

\* the first try block of handlePost
PostAuth(cfg, event) == verifyAuth(cfg, event.auth, "inventory:write")

\* lines 78-82 of handlePost: does the payload have one of the three shapes
ShapeAccepted(body) == body.shape \in {"array", "items", "item"}

\* a load that always starts from the empty list (variant)
LoadExistingEmpty(doc, rfault) == [threw |-> FALSE, list |-> <<>>]

\* lines 95-104 of handlePost: the existing list, or the TypeError of
\* existing.map on a parsed document that is no array
LoadExisting(doc, rfault) ==
  IF rfault \/ RawFalsy(doc) \/ ParseThrows(doc)
  THEN [threw |-> FALSE, list |-> <<>>]
  ELSE IF doc.kind = "array" THEN [threw |-> FALSE, list |-> doc.items]
  ELSE [threw |-> TRUE, list |-> <<>>]

\* lines 64-93 of handlePost: authorization, parsing, shape, id
\* normalization and validation.  done: the handler has returned (or thrown)
\* r; otherwise incoming is the normalized batch
PostCheck(cfg, event) ==
  LET auth == PostAuth(cfg, event)
      body == event.body
      incoming == [i \in DOMAIN body.items |-> WithNormalizedId(body.items[i])]
      validationErrors == ValidationErrors(incoming)
      Done(r) == [done |-> TRUE, r |-> r, incoming |-> <<>>]
  IN IF ~auth.ok THEN Done(resp(auth.status, auth.message, <<>>, <<>>))
     ELSE IF body.shape = "garbage"
          THEN Done(resp(400, "Invalid JSON", <<>>, <<>>))
     ELSE IF body.shape = "null"
          THEN Done(Unhandled("TypeError: payload is null"))
     ELSE IF ~ShapeAccepted(body)
          THEN Done(resp(400, "Body must be array, {items:[]}, or {item:{}}",
                         <<>>, <<>>))
     ELSE IF \E i \in DOMAIN body.items : IdThrows(body.items[i])
          THEN Done(Unhandled("TypeError: str.toLowerCase is not a function"))
     ELSE IF validationErrors # <<>>
          THEN Done(resp(400, "Validation failed", <<>>, validationErrors))
     ELSE [done |-> FALSE, r |-> resp(0, "", <<>>, <<>>), incoming |-> incoming]

\* lines 95-115 of handlePost: load, merge, write.  rfault: store.get
\* throws, wfault: store.set throws
PostStore(doc, incoming, rfault, wfault) ==
  LET existing == LoadExisting(doc, rfault)
      merged == Merge(existing.list, incoming)
      Same(r) == [r |-> r, doc |-> doc]
  IN IF existing.threw
     THEN Same(Unhandled("TypeError: existing.map is not a function"))
     ELSE IF wfault
          THEN Same([resp(500, "Failed to write inventory", <<>>, <<>>)
                       EXCEPT !.detail = "err.message", !.setCalls = 1, !.readFault = rfault,
                              !.writeFault = TRUE])
     ELSE [r |-> [resp(200, "", merged, <<>>)
                    EXCEPT !.setCalls = 1, !.readFault = rfault],
           doc |-> Stringify(merged)]

\* handlePost(event): the response r and the document doc left in the store
handlePost(cfg, event, doc, rfault, wfault) ==
  LET check == PostCheck(cfg, event)
  IN IF check.done THEN [r |-> check.r, doc |-> doc]
     ELSE PostStore(doc, check.incoming, rfault, wfault)

(* -------------------------- Upload Handler ---------------------------- *)

Filenames == {"a.jpg", "b.jpg"}
Urls == {"u1", "u2"}
NoUrl == "none"

\* The uploads document: absent, empty, garbage, null (the JSON value null)
\* or map (a JSON object, filename -> url, NoUrl for a filename not in it)
NoUploads == [f \in Filenames |-> NoUrl]
UploadsDoc(kind, map) == [kind |-> kind, map |-> map]

\* An upload request body: garbage, null (JSON null) or object, with the
\* filename and url properties ("" when the property is missing)
UploadBody(shape, filename, url) ==
  [shape |-> shape, filename |-> filename, url |-> url]

\* lines 14-22 of upload.js: OPTIONS, authorization, method, parsing and
\* the required properties.  done: the handler has returned (or thrown) r
UploadCheck(cfg, event) ==
  LET auth == verifyAuth(cfg, event.auth, "inventory:write")
      body == event.upload
      Done(r) == [done |-> TRUE, r |-> r]
  IN IF event.method = "OPTIONS" THEN Done(resp(200, "", <<>>, <<>>))
     ELSE IF ~auth.ok THEN Done(resp(auth.status, auth.message, <<>>, <<>>))
     ELSE IF event.method # "POST"
          THEN Done(resp(405, "Method not allowed", <<>>, <<>>))
     ELSE IF body.shape = "garbage"
          THEN Done(resp(400, "Invalid JSON", <<>>, <<>>))
     ELSE IF body.shape = "null"
          THEN Done(Unhandled("TypeError: cannot destructure null"))
     ELSE IF body.filename = "" \/ body.url = ""
          THEN Done(resp(400, "filename and url required", <<>>, <<>>))
     ELSE [done |-> FALSE, r |-> resp(0, "", <<>>, <<>>)]

\* lines 24-32 of upload.js: load, set the key, write.  rfault: store.get
\* throws, wfault: store.set throws (no try block around it)
UploadStore(doc, filename, url, rfault, wfault) ==
  LET uploads == IF rfault \/ doc.kind # "map" THEN NoUploads ELSE doc.map
      updated == [uploads EXCEPT ![filename] = url]
      Same(r) == [r |-> r, doc |-> doc]
  IN IF ~rfault /\ doc.kind = "null"
     THEN Same(Unhandled("TypeError: cannot set properties of null"))
     ELSE IF wfault
          THEN Same([Unhandled("store.set failed")
                       EXCEPT !.setCalls = 1, !.readFault = rfault,
                              !.writeFault = TRUE])
     ELSE [r |-> [resp(200, "", <<>>, <<>>)
                    EXCEPT !.setCalls = 1, !.readFault = rfault],
           doc |-> UploadsDoc("map", updated)]

\* exports.handler of upload.js: the response r and the document doc left
\* under uploads.json
uploadHandler(cfg, event, doc, rfault, wfault) ==
  LET check == UploadCheck(cfg, event)
  IN IF check.done THEN [r |-> check.r, doc |-> doc]
     ELSE UploadStore(doc, event.upload.filename, event.upload.url,
                      rfault, wfault)

(* ------------------------------ requests ------------------------------ *)

Item(id, make, model, year, status, price) ==
  [f \in Fields |->
     CASE f = "id" -> id [] f = "make" -> make [] f = "model" -> model
       [] f = "year" -> year [] f = "status" -> status [] OTHER -> price]

Ford == <<"F","o","r","d">>
Ka == <<"K","a">>

\* a full record with id a-1
FullA1 == Item(Str(<<"a","-","1">>), Str(Ford), Str(Ka), Undef,
               Str(Available), Num(5))
\* only an id (a-1 in another spelling) and the field to change
PartialA1 == Item(Str(<<"A"," ","1">>), Undef, Undef, Undef, Str(Sold), Undef)
\* the same change with the required fields given again
UpdateA1 == Item(Str(<<"A"," ","1">>), Str(Ford), Str(Ka), Undef, Str(Sold),
                 Undef)
\* a draft without id: the id is derived, ford-ka-7
NoIdDraft == Item(Undef, Str(Ford), Str(Ka), Num(7), Str(Draft), Undef)
\* an id that is no string
NumericId == Item(Num(7), Str(Ford), Str(Ka), Undef, Undef, Undef)
\* every rule of validateItem broken
AllWrong == Item(Str(<<"!","!">>), Str(<<>>), Undef, Str(<<"x">>),
                 Str(<<"L","e","a","s","e","d">>), Undef)

\* year and status present and empty
EmptyYear == Item(Str(<<"a","-","1">>), Str(Ford), Str(Ka), Str(<<>>),
                  Str(<<>>), Undef)

ItemPool == {FullA1, PartialA1, UpdateA1, NoIdDraft, NumericId, AllWrong}

Batches(n) == UNION {[1..k -> ItemPool] : k \in 0..n}

Bodies ==
  {BodyOf("array", b) : b \in Batches(MaxBatch)}
  \cup {BodyOf("items", <<>>), BodyOf("items", <<FullA1>>)}
  \cup {BodyOf("item", <<p>>) : p \in ItemPool \cup {EmptyYear}}
  \cup {BodyOf(sh, <<>>) : sh \in {"none", "garbage", "null", "scalar", "object"}}

NoBody == BodyOf("none", <<>>)
NoUpload == UploadBody("object", "", "")

UploadBodies ==
  {UploadBody("object", f, u) : f \in Filenames \cup {""}, u \in Urls \cup {""}}
  \cup {UploadBody("garbage", "", ""), UploadBody("null", "", "")}

Headers ==
  {NoHeader,
   Header(<<"B","a","s","i","c">>, "tWrite"),
   Header(<<"B","e","a","r","e","r">>, "bad"),
   Header(<<"B","e","a","r","e","r">>, "tRead"),
   Header(<<"B","e","a","r","e","r">>, "tNoScope"),
   Header(<<"b","e","a","r","e","r">>, "tWrite"),
   Header(<<"B","E","A","R","E","R">>, "tBoth")}

Envs == [domain : BOOLEAN, audience : BOOLEAN]

\* the outcomes of the store calls of a request that reaches them
Faults(reached) == IF reached THEN BOOLEAN ELSE {FALSE}

(* ------------------------------- state -------------------------------- *)

VARIABLES
  store,    \* the document under the key inventory.json
  uploads,  \* the document under the key uploads.json
  env,      \* AUTH0_DOMAIN and AUTH0_AUDIENCE are set
  last,     \* the request being answered: the documents before it and the
            \* response; Idle between two requests
  inflight, \* the concurrent invocations of handlePost: for each, how far
            \* it has run and its local variables
  norm      \* a string, how often normalizeId has been applied to it, and
            \* the value obtained

vars == <<store, uploads, env, last, inflight, norm>>

Request(endpoint, method, auth, includeDrafts, body, upload) ==
  [endpoint |-> endpoint, method |-> method, auth |-> auth,
   includeDrafts |-> includeDrafts, body |-> body, upload |-> upload]

Exchange(req, pre, preUploads, res) ==
  [req |-> req, pre |-> pre, preUploads |-> preUploads, res |-> res]

Idle == Exchange(Request("none", "none", NoHeader, "", NoBody, NoUpload),
                 AbsentDoc, UploadsDoc("absent", NoUploads),
                 resp(0, "", <<>>, <<>>))

\* The invocations that may overlap, and an invocation that has not begun.
\* pc: "start", "loaded" (suspended at await store.set, after lines 64-106)
\* or "done"; incoming, existing: the handler's local variables; after: the
\* invocations that had returned when this one began
Invocations == {1, 2}
NotStarted ==
  [pc |-> "start", incoming |-> <<>>, existing |-> <<>>,
   readFault |-> FALSE, after |-> {}, res |-> resp(0, "", <<>>, <<>>)]
NoneInFlight == [p \in Invocations |-> NotStarted]

\* normalizeId not being followed on its own
NoText == [input |-> <<>>, steps |-> 0, value |-> <<>>]

Init ==
  /\ store \in {AbsentDoc, EmptyTextDoc, GarbageDoc, NonArrayDoc}
  /\ uploads = UploadsDoc("absent", NoUploads)
  /\ env \in Envs
  /\ last = Idle
  /\ inflight = NoneInFlight
  /\ norm = NoText

\* The response reaches the client and the invocation ends: each invocation
\* handles exactly one request and keeps nothing in memory for the next.
Respond ==
  /\ last # Idle
  /\ last' = Idle
  /\ UNCHANGED <<store, uploads, env, inflight, norm>>

\* exports.handler of the inventory function, method OPTIONS
InventoryOptions ==
  \E auth \in Headers :
    /\ last = Idle
    /\ last' = Exchange(Request("inventory", "OPTIONS", auth, "", NoBody, NoUpload),
                        store, uploads, resp(200, "", <<>>, <<>>))
    /\ UNCHANGED <<store, uploads, env, inflight, norm>>

\* exports.handler of the inventory function, method GET
InventoryGet ==
  \E auth \in Headers, inc \in {"", "1"}, rfault \in BOOLEAN :
    LET req == Request("inventory", "GET", auth, inc, NoBody, NoUpload)
    IN /\ last = Idle
       /\ last' = Exchange(req, store, uploads, handleGet(env, req, store, rfault))
       /\ UNCHANGED <<store, uploads, env, inflight, norm>>

\* exports.handler of the inventory function, method POST
InventoryPost ==
  \E auth \in Headers, body \in Bodies :
    last = Idle /\
    LET req == Request("inventory", "POST", auth, "", body, NoUpload)
        reached == ~PostCheck(env, req).done
    IN \E rfault \in Faults(reached), wfault \in Faults(reached) :
         LET h == handlePost(env, req, store, rfault, wfault)
         IN /\ last' = Exchange(req, store, uploads, h.r)
            /\ store' = h.doc
            /\ UNCHANGED <<uploads, env, inflight, norm>>

\* exports.handler of the inventory function, any other method
InventoryOther ==
  \E auth \in Headers, method \in {"PUT", "DELETE"} :
    /\ last = Idle
    /\ last' = Exchange(Request("inventory", method, auth, "", NoBody, NoUpload),
                        store, uploads,
                        resp(405, "Method not allowed", <<>>, <<>>))
    /\ UNCHANGED <<store, uploads, env, inflight, norm>>

\* exports.handler of the upload function
Upload ==
  \E auth \in Headers, method \in {"OPTIONS", "POST", "GET"},
     body \in UploadBodies :
    last = Idle /\
    LET req == Request("upload", method, auth, "", NoBody, body)
        reached == ~UploadCheck(env, req).done
    IN \E rfault \in Faults(reached), wfault \in Faults(reached) :
         LET h == uploadHandler(env, req, uploads, rfault, wfault)
         IN /\ last' = Exchange(req, store, uploads, h.r)
            /\ uploads' = h.doc
            /\ UNCHANGED <<store, env, inflight, norm>>

Next ==
  \/ InventoryOptions
  \/ InventoryGet
  \/ InventoryPost
  \/ InventoryOther
  \/ Respond

Spec == Init /\ [][Next]_vars

UploadNext == Upload \/ Respond

UploadInit ==
  /\ store = AbsentDoc
  /\ uploads \in {UploadsDoc(k, NoUploads) : k \in {"absent", "garbage", "null"}}
  /\ env \in Envs
  /\ last = Idle
  /\ inflight = NoneInFlight
  /\ norm = NoText

UploadSpec == UploadInit /\ [][UploadNext]_vars

\* Both functions of a deployment in which AUTH0_DOMAIN or AUTH0_AUDIENCE is
\* not set
UnconfiguredInit ==
  /\ store \in {AbsentDoc, EmptyTextDoc, GarbageDoc, NonArrayDoc}
  /\ uploads \in {UploadsDoc(k, NoUploads) : k \in {"absent", "garbage", "null"}}
  /\ env \in {e \in Envs : ~e.domain \/ ~e.audience}
  /\ last = Idle
  /\ inflight = NoneInFlight
  /\ norm = NoText

UnconfiguredNext ==
  \/ InventoryOptions
  \/ InventoryGet
  \/ InventoryPost
  \/ InventoryOther
  \/ Upload
  \/ Respond

UnconfiguredSpec == UnconfiguredInit /\ [][UnconfiguredNext]_vars

\* Two invocations of handlePost that may overlap.  Each suspends at its
\* awaits; between await store.get and await store.set the other may run.
ConcurrentHeaders ==
  {NoHeader, Header(<<"B","e","a","r","e","r">>, "tWrite")}
ConcurrentBodies ==
  {BodyOf("item", <<x>>) : x \in {FullA1, UpdateA1, NoIdDraft, PartialA1}}
  \cup {BodyOf("array", <<NoIdDraft, FullA1>>)}

\* lines 64-106 of handlePost, up to await store.set: authorization, body,
\* validation, the load of the existing document
PostRead(p) ==
  \E auth \in ConcurrentHeaders, body \in ConcurrentBodies :
    /\ inflight[p].pc = "start"
    /\ LET req == Request("inventory", "POST", auth, "", body, NoUpload)
           check == PostCheck(env, req)
           Returned(r) == [NotStarted EXCEPT !.pc = "done", !.res = r]
       IN \E rfault \in Faults(~check.done) :
            LET existing == LoadExisting(store, rfault)
            IN inflight' =
                 [inflight EXCEPT ![p] =
                    IF check.done THEN Returned(check.r)
                    ELSE IF existing.threw
                         THEN Returned(Unhandled(
                                "TypeError: existing.map is not a function"))
                    ELSE [pc |-> "loaded", incoming |-> check.incoming,
                          existing |-> existing.list, readFault |-> rfault,
                          after |-> {q \in Invocations :
                                       inflight[q].pc = "done"},
                          res |-> resp(0, "", <<>>, <<>>)]]
    /\ UNCHANGED <<store, uploads, env, last, norm>>

\* lines 104-115 of handlePost: the merge into what was loaded, the write of
\* the whole document, the response
PostWrite(p) ==
  \E wfault \in BOOLEAN :
    /\ inflight[p].pc = "loaded"
    /\ LET merged == Merge(inflight[p].existing, inflight[p].incoming)
       IN IF wfault
          THEN /\ inflight' =
                    [inflight EXCEPT
                       ![p].pc = "done",
                       ![p].res = [resp(500, "Failed to write inventory",
                                        <<>>, <<>>)
                                     EXCEPT !.detail = "err.message",
                                            !.setCalls = 1,
                                            !.writeFault = TRUE]]
               /\ UNCHANGED store
          ELSE /\ inflight' =
                    [inflight EXCEPT
                       ![p].pc = "done",
                       ![p].res = [resp(200, "", merged, <<>>)
                                     EXCEPT !.setCalls = 1]]
               /\ store' = Stringify(merged)
    /\ UNCHANGED <<uploads, env, last, norm>>

ConcurrentInit ==
  /\ store \in {AbsentDoc, EmptyTextDoc, GarbageDoc, NonArrayDoc}
  /\ uploads = UploadsDoc("absent", NoUploads)
  /\ env \in Envs
  /\ last = Idle
  /\ inflight = NoneInFlight
  /\ norm = NoText

ConcurrentNext ==
  \E p \in Invocations : PostRead(p) \/ PostWrite(p)

ConcurrentSpec == ConcurrentInit /\ [][ConcurrentNext]_vars

\* normalizeId on its own, applied again to its own result.  The strings
\* are those of at most MaxLen characters over a lower-case letter, an
\* upper-case letter, a digit, the hyphen, the space and a punctuation mark.
Alphabet == {"a", "B", "1", "-", " ", "!"}
Strings(n) == UNION {[1..k -> Alphabet] : k \in 0..n}

NormInit ==
  /\ store = AbsentDoc
  /\ uploads = UploadsDoc("absent", NoUploads)
  /\ env = [domain |-> TRUE, audience |-> TRUE]
  /\ last = Idle
  /\ inflight = NoneInFlight
  /\ norm \in {[input |-> str, steps |-> 0, value |-> str] :
                 str \in Strings(MaxLen)}

NormalizeId ==
  /\ norm.steps < MaxApplications
  /\ norm' = [norm EXCEPT !.steps = @ + 1, !.value = normalizeId(@)]
  /\ UNCHANGED <<store, uploads, env, last, inflight>>

NormSpec == NormInit /\ [][NormalizeId]_vars

(* ============================ properties ============================== *)

Configured == env.domain /\ env.audience

IsInventory(method) ==
  last.req.endpoint = "inventory" /\ last.req.method = method

\* the request carries a header of the form Bearer <token>, in any case
IsBearer(h) ==
  h.present /\ h.scheme \in {<<"B","e","a","r","e","r">>,
                             <<"b","e","a","r","e","r">>,
                             <<"B","E","A","R","E","R">>}

\* the token passes signature, issuer and audience verification
Verifies(h) == h.token \in {"tRead", "tWrite", "tBoth", "tNoScope"}

\* the scope claim of the token contains scope
HasScope(h, scope) == \E i \in DOMAIN TokenScopes(h.token) :
                        TokenScopes(h.token)[i] = scope

\* the request is authorized for scope
Authorized(h, scope) ==
  Configured /\ IsBearer(h) /\ Verifies(h) /\ HasScope(h, scope)

\* the k-th smallest element of a finite set of numbers
RECURSIVE Nth(_, _)
Nth(S, k) ==
  LET m == CHOOSE x \in S : \A y \in S : x <= y
  IN IF k = 1 THEN m ELSE Nth(S \ {m}, k - 1)

\* out is list without its Draft items, the others in the order of list
IsPublicViewOf(out, list) ==
  LET keep == {i \in DOMAIN list : list[i]["status"] # Str(Draft)}
  IN /\ Len(out) = Cardinality(keep)
     /\ \A k \in DOMAIN out : out[k] = list[Nth(keep, k)]

HasDraft(list) == \E i \in DOMAIN list : list[i]["status"] = Str(Draft)
HasNonDraft(list) == \E i \in DOMAIN list : list[i]["status"] # Str(Draft)

(* C1: an inventory POST whose bearer token is missing, malformed, fails     *)
(* verification or lacks scope inventory:write leaves the stored document  *)
(* as it was, whatever the body, and never calls store.set.                *)
UnauthorizedPostLeavesStore ==
  (IsInventory("POST")
   /\ (~last.req.auth.present \/ ~IsBearer(last.req.auth)
       \/ ~Verifies(last.req.auth)
       \/ ~HasScope(last.req.auth, "inventory:write")))
  => (store = last.pre /\ last.res.setCalls = 0)

\* a verified token with the wrong scope posts a valid item to a non-empty
\* collection
UnauthorizedPostWitness ==
  /\ IsInventory("POST") /\ Configured
  /\ IsBearer(last.req.auth) /\ Verifies(last.req.auth)
  /\ ~HasScope(last.req.auth, "inventory:write")
  /\ last.req.body = BodyOf("array", <<NoIdDraft>>)
  /\ last.pre.kind = "array" /\ Len(last.pre.items) = 1
  /\ store = last.pre

(* C2: with issuer and audience configured, a token that verifies but lacks  *)
(* the required scope makes the inventory POST answer 403.                 *)
WrongScopePostIs403 ==
  (IsInventory("POST") /\ Configured
   /\ IsBearer(last.req.auth) /\ Verifies(last.req.auth)
   /\ ~HasScope(last.req.auth, "inventory:write"))
  => last.res.status = 403

\* the same for the upload handler
WrongScopeUploadIs403 ==
  (last.req.endpoint = "upload" /\ last.req.method = "POST" /\ Configured
   /\ IsBearer(last.req.auth) /\ Verifies(last.req.auth)
   /\ ~HasScope(last.req.auth, "inventory:write"))
  => last.res.status = 403

\* the GET is elevated: includeDrafts=1 and a token verified with scope
\* inventory:read
Elevated ==
  last.req.includeDrafts = "1" /\ Authorized(last.req.auth, "inventory:read")

(* C3: for a stored collection, a GET that is not elevated returns exactly   *)
(* the non-Draft items in stored order, and an elevated GET returns the    *)
(* whole collection.                                                       *)
GetDraftFiltering ==
  (IsInventory("GET") /\ last.pre.kind = "array" /\ ~last.res.readFault)
  => /\ last.res.status = 200
     /\ IF Elevated THEN last.res.out = last.pre.items
        ELSE /\ IsPublicViewOf(last.res.out, last.pre.items)
             /\ ~HasDraft(last.res.out)

\* a GET asking for drafts with a token that lacks inventory:read, on a
\* collection holding a draft and another item after it
GetDraftFilteringWitness ==
  /\ IsInventory("GET") /\ ~Elevated /\ Configured
  /\ last.req.includeDrafts = "1" /\ Verifies(last.req.auth)
  /\ last.pre.kind = "array" /\ Len(last.pre.items) = 2
  /\ last.pre.items[1]["status"] = Str(Draft)
  /\ last.res.status = 200 /\ Len(last.res.out) = 1

\* an elevated GET returning a draft
ElevatedGetWitness ==
  /\ IsInventory("GET") /\ Elevated
  /\ last.res.status = 200 /\ HasDraft(last.res.out)
  /\ HasNonDraft(last.res.out)

\* the inventory POST is authorized and its body has an accepted shape
AuthorizedPost ==
  IsInventory("POST") /\ Authorized(last.req.auth, "inventory:write")

AcceptedShape == last.req.body.shape \in {"array", "items", "item"}

\* the id under which an incoming item x is stored
StoredIdOf(x) ==
  IF Truthy(x["id"]) THEN normalizeId(x["id"].s)
  ELSE normalizeId(DerivedIdSource(x))

\* the authorized POST carries one item, with a string id under which a
\* record is stored, and neither store call faults
PostsOneItemOver(p) ==
  /\ AuthorizedPost /\ AcceptedShape
  /\ last.req.body.items = <<p>>
  /\ p["id"].t = "str" /\ Truthy(p["id"])
  /\ last.pre.kind = "array"
  /\ \E j \in DOMAIN last.pre.items :
       last.pre.items[j]["id"] = Str(StoredIdOf(p))
  /\ ~last.res.readFault /\ ~last.res.writeFault

\* new is old with the record of id nid changed in the fields p carries and
\* in no other, every record at its old position
FieldMerged(new, old, p, nid) ==
  /\ Len(new) = Len(old)
  /\ \A j \in DOMAIN old :
       new[j] = IF old[j]["id"] = Str(nid)
                THEN [f \in Fields |->
                        IF f = "id" THEN Str(nid)
                        ELSE IF Present(p[f]) THEN p[f] ELSE old[j][f]]
                ELSE old[j]

\* the fields an item carries besides its id are well-formed
CarriedFieldsValid(p) ==
  /\ Present(p["make"]) => Truthy(p["make"])
  /\ Present(p["model"]) => Truthy(p["model"])
  /\ Present(p["year"]) => p["year"].t = "num"
  /\ Present(p["status"]) =>
       (p["status"].t = "str" /\ p["status"].s \in StatusEnum)

(* C4 as stated: an authorized POST of a partial item, carrying an id and    *)
(* only the fields to change, over a stored record with that id succeeds   *)
(* and changes only the posted fields, every record keeping its position.  *)
PartialPostMerges ==
  \A p \in ItemPool :
    (PostsOneItemOver(p) /\ CarriedFieldsValid(p))
    => /\ last.res.status = 200
       /\ store.kind = "array"
       /\ FieldMerged(store.items, last.pre.items, p, StoredIdOf(p))

(* C4 as amended: the same for an item that carries non-empty make and      *)
(* model besides its id; an item without make or model is answered 400     *)
(* 'Validation failed' and the stored document stays as it was.            *)
FieldLevelMerge ==
  \A p \in ItemPool :
    (PostsOneItemOver(p) /\ CarriedFieldsValid(p))
    => IF Truthy(p["make"]) /\ Truthy(p["model"])
       THEN /\ last.res.status = 200
            /\ last.res.out = store.items
            /\ store.kind = "array"
            /\ FieldMerged(store.items, last.pre.items, p, StoredIdOf(p))
       ELSE /\ last.res.status = 400
            /\ last.res.error = "Validation failed"
            /\ store = last.pre

\* {id:"A 1", make, model, status:"Sold"} posted over the record a-1, which
\* has a price and status Available and stands before another record
FieldLevelMergeWitness ==
  /\ PostsOneItemOver(UpdateA1)
  /\ Len(last.pre.items) = 2
  /\ last.pre.items[1]["id"] = Str(<<"a","-","1">>)
  /\ last.pre.items[1]["status"] = Str(Available)
  /\ last.pre.items[1]["price"] = Num(5)
  /\ last.res.status = 200
  /\ store.items[1]["status"] = Str(Sold)
  /\ store.items[1]["price"] = Num(5)
  /\ store.items[2] = last.pre.items[2]

\* the partial item {id:"A 1", status:"Sold"} posted over the record a-1
PartialPostRejectedWitness ==
  /\ PostsOneItemOver(PartialA1)
  /\ last.res.status = 400

\* the rules of validation an incoming item x breaks
BrokenRules(x) ==
  (IF (Truthy(x["id"]) /\ x["id"].t # "str") \/ StoredIdOf(x) = <<>>
     THEN {"id is required string"} ELSE {})
  \cup (IF ~Truthy(x["make"]) THEN {"make is required"} ELSE {})
  \cup (IF ~Truthy(x["model"]) THEN {"model is required"} ELSE {})
  \cup (IF Truthy(x["year"]) /\ x["year"].t # "num"
          THEN {"year must be number"} ELSE {})
  \cup (IF Truthy(x["status"])
           /\ ~(x["status"].t = "str" /\ x["status"].s \in StatusEnum)
          THEN {"status must be Available | On Hold | Sold | Draft"}
          ELSE {})

\* every violation of every item, tagged with the item's index from 0
AllViolations(items) ==
  UNION {{Detail(i - 1, m) : m \in BrokenRules(items[i])} : i \in DOMAIN items}

\* the response is the 400 of validation listing exactly the violations,
\* and nothing was stored
RejectedWithAllViolations ==
  /\ last.res.status = 400
  /\ last.res.error = "Validation failed"
  /\ Range(last.res.details) = AllViolations(last.req.body.items)
  /\ Len(last.res.details) = Cardinality(AllViolations(last.req.body.items))
  /\ store = last.pre
  /\ last.res.setCalls = 0

(* C5: if any item of an authorized POST batch violates a validation rule,   *)
(* the response is 400 with every violation of every item, tagged with the *)
(* item's index, and the stored collection is unchanged.                   *)
ValidationExhaustive ==
  (AuthorizedPost /\ AcceptedShape
   /\ AllViolations(last.req.body.items) # {})
  => RejectedWithAllViolations

\* the same for the batches in which every id given is a string
ValidationExhaustiveForStringIds ==
  (AuthorizedPost /\ AcceptedShape
   /\ AllViolations(last.req.body.items) # {}
   /\ \A i \in DOMAIN last.req.body.items :
        ~IdThrows(last.req.body.items[i]))
  => RejectedWithAllViolations

\* a batch of a valid item and an invalid one, over a non-empty collection
ValidationExhaustiveWitness ==
  /\ AuthorizedPost
  /\ last.req.body = BodyOf("array", <<FullA1, AllWrong>>)
  /\ last.pre.kind = "array" /\ Len(last.pre.items) > 0
  /\ Len(last.res.details) = 5

(* C6: no two items of the stored inventory collection have the same id.     *)
StoredIdsUnique ==
  store.kind = "array"
  => \A i, j \in DOMAIN store.items :
       i # j => store.items[i]["id"] # store.items[j]["id"]

\* a stored batch that named one id in two spellings
StoredIdsUniqueWitness ==
  /\ AuthorizedPost /\ last.res.status = 200
  /\ last.req.body = BodyOf("array", <<FullA1, UpdateA1>>)
  /\ last.pre.kind = "array" /\ Len(last.pre.items) = 2
  /\ Len(store.items) = 2

\* the stored list as handleGet reads it
PreList == IF last.pre.kind = "array" THEN last.pre.items ELSE <<>>

(* C7: a GET whose store read succeeds answers 200 whatever the              *)
(* authorization header and whether or not issuer and audience are         *)
(* configured; unless it is elevated, its result is the public view.       *)
GetNeverFailsOnAuth ==
  (IsInventory("GET") /\ ~last.res.readFault /\ last.pre.kind # "garbage")
  => /\ last.res.status = 200
     /\ ~last.res.threw
     /\ ~Elevated => IsPublicViewOf(last.res.out, PreList)

\* a GET asking for drafts with a token that fails verification, on a
\* collection holding a draft
GetNeverFailsOnAuthWitness ==
  /\ IsInventory("GET") /\ last.req.includeDrafts = "1"
  /\ IsBearer(last.req.auth) /\ ~Verifies(last.req.auth)
  /\ HasDraft(PreList) /\ HasNonDraft(PreList)
  /\ last.res.status = 200 /\ ~HasDraft(last.res.out)

\* a GET asking for drafts where issuer and audience are not configured
GetUnconfiguredWitness ==
  /\ IsInventory("GET") /\ last.req.includeDrafts = "1"
  /\ last.req.auth.present /\ ~Configured
  /\ last.res.status = 200

(* C8: an authorized POST whose body is none of a bare array, an object      *)
(* with an array items, an object with item, is answered 400 and leaves    *)
(* the store unchanged.                                                    *)
OtherBodiesRejected ==
  (AuthorizedPost /\ ~AcceptedShape)
  => (last.res.status = 400 /\ store = last.pre)

\* no item of the body breaks a rule
ValidBatch ==
  AcceptedShape /\ AllViolations(last.req.body.items) = {}

\* the incoming items as they are stored
RECURSIVE Normalized(_)
Normalized(items) ==
  IF items = <<>> THEN <<>>
  ELSE <<[Head(items) EXCEPT !["id"] = Str(StoredIdOf(Head(items)))]>>
       \o Normalized(Tail(items))

\* the POST answered 200 with the incoming items merged into an empty
\* collection, and stored that
StoredFromEmpty ==
  /\ last.res.status = 200
  /\ store.kind = "array"
  /\ store.items = Merge(<<>>, Normalized(last.req.body.items))
  /\ last.res.out = store.items

(* C9: an authorized, valid POST succeeds when the existing document is      *)
(* absent, cannot be read or is corrupt (anything but a JSON array of      *)
(* items): the incoming items are merged into an empty collection.         *)
PostSurvivesBrokenDocument ==
  (AuthorizedPost /\ ValidBatch /\ ~last.res.writeFault
   /\ (last.pre.kind # "array" \/ last.res.readFault))
  => StoredFromEmpty

\* the same for a document that is absent, empty or unparseable, or whose
\* read faults
PostSurvivesUnreadableDocument ==
  (AuthorizedPost /\ ValidBatch /\ ~last.res.writeFault
   /\ (last.pre.kind \in {"absent", "empty", "garbage"} \/ last.res.readFault))
  => StoredFromEmpty

(* C10 as stated: GET answers 200 with an empty array when the store holds   *)
(* no document, and 500 with a diagnostic detail when the stored text is   *)
(* malformed (not JSON) or the read faults; GET never writes.              *)
GetMalformedIs500 ==
  IsInventory("GET")
  => /\ store = last.pre /\ last.res.setCalls = 0
     /\ (last.pre.kind = "absent" /\ ~last.res.readFault)
          => (last.res.status = 200 /\ last.res.out = <<>>)
     /\ (last.pre.kind \in {"empty", "garbage"} \/ last.res.readFault)
          => (last.res.status = 500 /\ last.res.detail # "")

(* C10 as amended: GET answers 200 with an empty array when the store holds  *)
(* no document or an empty one, and 500 with a diagnostic detail when the  *)
(* stored text is not empty and does not parse as JSON or the read faults; *)
(* GET never writes.                                                       *)
GetAbsentVersusBroken ==
  IsInventory("GET")
  => /\ store = last.pre /\ last.res.setCalls = 0
     /\ (last.pre.kind \in {"absent", "empty"} /\ ~last.res.readFault)
          => (last.res.status = 200 /\ last.res.out = <<>>
              /\ last.res.error = "")
     /\ (last.pre.kind = "garbage" \/ last.res.readFault)
          => (last.res.status = 500
              /\ last.res.error = "Failed to read inventory"
              /\ last.res.detail # "")

\* a GET on a document that does not parse
GetAbsentVersusBrokenWitness ==
  /\ IsInventory("GET") /\ last.pre.kind = "garbage"
  /\ ~last.res.readFault /\ last.res.status = 500

IsUpload(method) ==
  last.req.endpoint = "upload" /\ last.req.method = method

(* C11: when the issuer domain or the audience is not configured, every      *)
(* POST to the inventory handler and to the upload handler is answered 500 *)
(* whatever the authorization header, and neither document is modified.    *)
UnconfiguredPostIs500 ==
  ((IsInventory("POST") \/ IsUpload("POST")) /\ ~Configured)
  => /\ last.res.status = 500
     /\ ~last.res.threw
     /\ last.res.error = "Auth not configured"
     /\ store = last.pre
     /\ uploads = last.preUploads
     /\ last.res.setCalls = 0

\* an inventory POST without header, only the audience missing
UnconfiguredPostWitness ==
  /\ IsInventory("POST") /\ env.domain /\ ~env.audience
  /\ ~last.req.auth.present
  /\ last.req.body = BodyOf("item", <<FullA1>>)
  /\ last.res.status = 500

\* an upload POST with a header that is no bearer token, nothing configured
UnconfiguredUploadWitness ==
  /\ IsUpload("POST") /\ ~env.domain /\ ~env.audience
  /\ last.req.auth.present /\ ~IsBearer(last.req.auth)
  /\ last.req.upload = UploadBody("object", "a.jpg", "u1")
  /\ last.res.status = 500

Untouched ==
  /\ store = last.pre
  /\ uploads = last.preUploads
  /\ last.res.setCalls = 0

IsServed(endpoint, method) ==
  \/ endpoint = "inventory" /\ method \in {"GET", "POST"}
  \/ endpoint = "upload" /\ method = "POST"

(* C12: on both endpoints a request whose method is neither OPTIONS nor a   *)
(* served method is answered 405 "Method not allowed" whatever its         *)
(* authorization, OPTIONS is answered 200 without any auth check, and      *)
(* neither outcome touches the store.                                      *)
MethodRouting ==
  /\ (last # Idle /\ last.req.method = "OPTIONS")
     => (last.res.status = 200 /\ Untouched)
  /\ (/\ last # Idle
      /\ last.req.method # "OPTIONS"
      /\ ~IsServed(last.req.endpoint, last.req.method))
     => /\ last.res.status = 405
        /\ last.res.error = "Method not allowed"
        /\ Untouched

\* the inventory function alone routes as C12 says
InventoryMethodRouting ==
  /\ IsInventory("OPTIONS") => (last.res.status = 200 /\ Untouched)
  /\ (IsInventory("PUT") \/ IsInventory("DELETE"))
     => /\ last.res.status = 405
        /\ last.res.error = "Method not allowed"
        /\ Untouched

\* the upload function answers 405 only to a caller holding inventory:write
UploadOtherMethodNeedsAuth ==
  IsUpload("GET")
  => /\ Untouched
     /\ last.res.status =
          IF ~Configured THEN 500
          ELSE IF Authorized(last.req.auth, "inventory:write") THEN 405
          ELSE 401

AuthorizedUpload ==
  /\ IsUpload("POST") /\ Configured
  /\ Authorized(last.req.auth, "inventory:write")

\* the filename -> url mapping held by uploads.json before the request
PreUploads ==
  IF last.preUploads.kind = "map" THEN last.preUploads.map ELSE NoUploads

MissingFilenameOrUrl ==
  \/ last.req.upload.shape # "object"
  \/ last.req.upload.filename = ""
  \/ last.req.upload.url = ""

KeyOverwritten ==
  /\ uploads.kind = "map"
  /\ uploads.map[last.req.upload.filename] = last.req.upload.url
  /\ \A f \in Filenames \ {last.req.upload.filename} :
       uploads.map[f] = PreUploads[f]
  /\ store = last.pre

(* C13: after an authorized upload record that returns 200, uploads.json   *)
(* maps the filename to the url, every other filename keeps its mapping    *)
(* and the inventory document is unchanged; a request missing filename or  *)
(* url returns 400 and changes nothing.                                    *)
UploadIsKeyOverwrite ==
  /\ (AuthorizedUpload /\ last.res.status = 200) => KeyOverwritten
  /\ (AuthorizedUpload /\ MissingFilenameOrUrl)
     => (last.res.status = 400 /\ Untouched)

\* what the handler does: the overwrite keeps the other keys when the
\* document was read, and a body that is an object, or no JSON, gets the 400
UploadKeyOverwriteWhenRead ==
  /\ (AuthorizedUpload /\ last.res.status = 200 /\ ~last.res.readFault)
     => KeyOverwritten
  /\ (AuthorizedUpload /\ MissingFilenameOrUrl
        /\ last.req.upload.shape # "null")
     => (last.res.status = 400 /\ Untouched)

\* a second filename recorded next to an existing one
UploadKeyOverwriteWitness ==
  /\ AuthorizedUpload /\ last.res.status = 200
  /\ last.req.upload.filename = "a.jpg"
  /\ PreUploads["a.jpg"] = "u1" /\ PreUploads["b.jpg"] = "u2"
  /\ uploads.map["a.jpg"] = "u2" /\ uploads.map["b.jpg"] = "u2"

\* the body null: neither filename nor url, and no response at all
UploadNullBodyWitness ==
  /\ AuthorizedUpload /\ last.req.upload.shape = "null"
  /\ last.res.threw

\* a failed read of uploads.json: 200, and the other filename is gone
UploadReadFaultDropsKeys ==
  /\ AuthorizedUpload /\ last.res.status = 200 /\ last.res.readFault
  /\ last.req.upload.filename = "a.jpg"
  /\ PreUploads["b.jpg"] = "u1" /\ uploads.map["b.jpg"] = NoUrl

DocumentsKept ==
  /\ store = last.pre
  /\ uploads = last.preUploads

(* C14: in the inventory POST handler and in the upload handler a failing  *)
(* store write after successful authorization and validation gives a 500   *)
(* response carrying the underlying message, never a 200 and never an      *)
(* unhandled failure, and the stored document keeps its prior content.     *)
WriteFaultIs500 ==
  (last # Idle /\ last.res.writeFault)
  => /\ last.res.status = 500
     /\ ~last.res.threw
     /\ last.res.detail = "err.message"
     /\ DocumentsKept

\* the inventory handler alone reports the failed write as C14 says
InventoryWriteFaultIs500 ==
  (IsInventory("POST") /\ last.res.writeFault)
  => /\ last.res.status = 500
     /\ last.res.error = "Failed to write inventory"
     /\ last.res.detail = "err.message"
     /\ ~last.res.threw
     /\ DocumentsKept

InventoryWriteFaultWitness ==
  /\ IsInventory("POST") /\ last.res.writeFault
  /\ last.pre.kind = "array" /\ Len(last.pre.items) = 1
  /\ last.res.status = 500

\* the upload handler lets the rejection of store.set escape
UploadWriteFaultUnhandled ==
  (IsUpload("POST") /\ last.res.writeFault)
  => (last.res.threw /\ last.res.status = 0 /\ DocumentsKept)

UploadWriteFaultWitness ==
  /\ IsUpload("POST") /\ last.res.writeFault
  /\ last.preUploads.kind = "map"
  /\ last.res.threw

IdsOf(list) == {list[i]["id"] : i \in DOMAIN list}
StoredIds == IF store.kind = "array" THEN IdsOf(store.items) ELSE {}

Returned200(p) ==
  inflight[p].pc = "done" /\ inflight[p].res.status = 200

\* q had returned before p began: the two ran one after the other
RanAfter(p, q) == q \in inflight[p].after

SequentialPostsWitness ==
  /\ Returned200(1) /\ Returned200(2)
  /\ RanAfter(2, 1) /\ ~inflight[2].readFault
  /\ inflight[1].incoming = <<WithNormalizedId(FullA1)>>
  /\ inflight[2].incoming = <<WithNormalizedId(NoIdDraft)>>
  /\ Len(store.items) = 2

\* a lost update needs the overlap, or a failed read
LostUpdateNeedsOverlap ==
  \A p \in Invocations : \A q \in Invocations \ {p} :
    (/\ Returned200(p) /\ Returned200(q)
     /\ ~inflight[p].readFault /\ ~inflight[q].readFault
     /\ ~(IdsOf(inflight[p].incoming) \cup IdsOf(inflight[q].incoming)
            \subseteq StoredIds))
    => (~RanAfter(p, q) /\ ~RanAfter(q, p))

\* an incoming item x breaks a rule of C16: the rules on year and status
\* apply whenever the field is present
BreaksRule(x) ==
  \/ Present(x["id"]) /\ x["id"].t # "str"
  \/ StoredIdOf(x) = <<>>
  \/ ~(x["make"].t = "str" /\ x["make"].s # <<>>)
  \/ ~(x["model"].t = "str" /\ x["model"].s # <<>>)
  \/ Present(x["year"]) /\ x["year"].t # "num"
  \/ Present(x["status"])
       /\ ~(x["status"].t = "str" /\ x["status"].s \in StatusEnum)

SomeItemBreaksRule ==
  \E i \in DOMAIN last.req.body.items : BreaksRule(last.req.body.items[i])

(* C16: an authorized POST batch is accepted only if every incoming item   *)
(* has a non-empty string id, a non-empty make and model and, whenever the *)
(* field is present, a numeric year and a status of the enumeration; every *)
(* batch with an item breaking one of these rules is rejected with 400     *)
(* "Validation failed".                                                    *)
ValidationRules ==
  (AuthorizedPost /\ AcceptedShape /\ SomeItemBreaksRule)
  => /\ last.res.status = 400
     /\ last.res.error = "Validation failed"
     /\ store = last.pre

\* an id that is no string: the handler throws, no 400
NonStringIdThrows ==
  /\ AuthorizedPost
  /\ last.req.body = BodyOf("item", <<NumericId>>)
  /\ last.res.threw

\* year "" and status "": present, no number and no status of the
\* enumeration, and accepted
EmptyYearAccepted ==
  /\ AuthorizedPost
  /\ last.req.body = BodyOf("item", <<EmptyYear>>)
  /\ last.res.status = 200
  /\ last.res.out[1]["year"] = Str(<<>>)

\* what validateItem enforces: its rules on year and status apply to truthy
\* values only, and it is reached only when every given id is a string
ValidationRulesAsCoded ==
  (AuthorizedPost /\ AcceptedShape)
  => LET items == last.req.body.items
     IN IF \E i \in DOMAIN items : IdThrows(items[i])
        THEN last.res.threw /\ store = last.pre
        ELSE (last.res.status = 400 /\ last.res.error = "Validation failed")
             <=> (\E i \in DOMAIN items : BrokenRules(items[i]) # {})

IdSeq(list) == [i \in DOMAIN list |-> list[i]["id"]]

RECURSIVE FirstOccurrences(_, _)
\* the ids of the sequence ids that are not in seen, each once, in the order
\* in which they first occur
FirstOccurrences(ids, seen) ==
  IF ids = <<>> THEN <<>>
  ELSE IF Head(ids) \in seen THEN FirstOccurrences(Tail(ids), seen)
  ELSE <<Head(ids)>> \o FirstOccurrences(Tail(ids), seen \cup {Head(ids)})

\* the existing collection of a POST: what was stored, or nothing when the
\* document is absent or could not be loaded
ExistingList == IF last.res.readFault THEN <<>> ELSE PreList

IncomingIds ==
  [i \in DOMAIN last.req.body.items |->
     Str(StoredIdOf(last.req.body.items[i]))]

NewIdsInBatchOrderWitness ==
  /\ AuthorizedPost /\ last.res.status = 200
  /\ last.req.body = BodyOf("array", <<NoIdDraft, FullA1>>)
  /\ PreList = <<>>
  /\ IdSeq(store.items) = <<Str(StoredIdOf(NoIdDraft)), Str(<<"a","-","1">>)>>

(* C18: normalizeId(normalizeId(s)) = normalizeId(s) for every string s:   *)
(* once normalizeId has been applied, applying it again changes nothing.   *)
NormalizeIdIdempotent ==
  (norm.steps >= 1) => (norm.value = normalizeId(norm.input))

\* "!B-" becomes b, and stays b
NormalizeIdIdempotentWitness ==
  /\ norm.steps = 2
  /\ norm.input = <<"!", "B", "-">>
  /\ norm.value = <<"b">>

\* so an item posted back under the id a POST returned addresses the same
\* record: the id of every returned item is its own normal form
ReturnedIdsAddressSameRecord ==
  (AuthorizedPost /\ last.res.status = 200)
  => \A i \in DOMAIN last.res.out :
       /\ last.res.out[i]["id"].t = "str"
       /\ normalizeId(last.res.out[i]["id"].s) = last.res.out[i]["id"].s

\* lower-case alphanumerics separated by single hyphens, with no hyphen at
\* either end, and at least one character
IsNormalizedId(v) ==
  /\ v.t = "str"
  /\ v.s # <<>>
  /\ \A i \in DOMAIN v.s : v.s[i] \in LowerAlnumChars \cup {"-"}
  /\ v.s[1] # "-" /\ v.s[Len(v.s)] # "-"
  /\ \A i \in 1..(Len(v.s) - 1) : ~(v.s[i] = "-" /\ v.s[i + 1] = "-")

(* C19: starting from an absent document, after any sequence of requests   *)
(* every item of the stored inventory collection has an id that is a       *)
(* non-empty normalized string and has a non-empty make and model.         *)
StoredItemsWellFormed ==
  (store.kind = "array")
  => \A i \in DOMAIN store.items :
       /\ IsNormalizedId(store.items[i]["id"])
       /\ Truthy(store.items[i]["make"])
       /\ Truthy(store.items[i]["model"])

\* two records stored by two requests, one posted under the id "A 1" and
\* one without id
StoredItemsWellFormedWitness ==
  /\ AuthorizedPost /\ last.res.status = 200
  /\ last.req.body = BodyOf("item", <<UpdateA1>>)
  /\ IdSeq(PreList) = <<Str(StoredIdOf(NoIdDraft))>>
  /\ IdSeq(store.items) = <<Str(StoredIdOf(NoIdDraft)), Str(<<"a","-","1">>)>>
  /\ StoredIdOf(NoIdDraft) =
       <<"f","o","r","d","-","k","a","-","7">>

PostReturned200 == IsInventory("POST") /\ last.res.status = 200

(* C20: for every inventory POST that returns 200 with no other request    *)
(* interleaved, every id in the stored collection before the request is    *)
(* still in the stored collection after it, also when the read step of     *)
(* the POST hits a store fault.                                            *)
NoRecordLost ==
  PostReturned200 => (IdsOf(PreList) \subseteq StoredIds)

(* C20, amended: the ids stored before are kept when the read step of the  *)
(* POST succeeds; when it hits a store fault the existing collection is    *)
(* taken to be empty and the stored collection afterwards holds the batch  *)
(* alone.                                                                  *)
NoRecordLostWhenRead ==
  /\ (PostReturned200 /\ ~last.res.readFault)
     => (IdsOf(PreList) \subseteq StoredIds)
  /\ (PostReturned200 /\ last.res.readFault)
     => /\ StoredIds = Range(IncomingIds)
        /\ store = Stringify(Merge(<<>>, Normalized(last.req.body.items)))

\* a record a-1 is posted next to the stored ford-ka-7, which stays
NoRecordLostWitness ==
  /\ PostReturned200 /\ ~last.res.readFault
  /\ last.req.body = BodyOf("item", <<FullA1>>)
  /\ IdSeq(PreList) = <<Str(StoredIdOf(NoIdDraft))>>
  /\ Str(StoredIdOf(NoIdDraft)) \in StoredIds
  /\ Cardinality(StoredIds) = 2

\* the same request when store.get throws: 200, and ford-ka-7 is gone
ReadFaultLosesRecords ==
  /\ PostReturned200 /\ last.res.readFault
  /\ last.req.body = BodyOf("item", <<FullA1>>)
  /\ IdSeq(PreList) = <<Str(StoredIdOf(NoIdDraft))>>
  /\ IdSeq(store.items) = <<Str(<<"a","-","1">>)>>

====
